---- MODULE Spec2Model ----
(***************************************************************************)
(* Construction of the EMR Containers Step Functions tasks                *)
(* (EmrContainersStartJobRun, EmrContainersCreateVirtualCluster,          *)
(* EmrContainersDeleteVirtualCluster): the integration pattern gate, the  *)
(* field validation of the StartJobRun constructor, the role and          *)
(* monitoring resources it sets up, and the task policies it derives.     *)
(*                                                                         *)
(* A task is constructed from its props in the order of the constructor's *)
(* statements; every statement block of the constructor is one action and *)
(* pc names the block that runs next.  A throw ends the construction in   *)
(* pc = "failed" with the error in `error`.                               *)
(***************************************************************************)
EXTENDS Integers, Sequences, FiniteSets, TLC

VARIABLES
    props,               \* the props object handed to the constructor
    pc,                  \* position in the constructor
    error,               \* the error the constructor threw, NoError if none
    integrationPattern,  \* this.integrationPattern
    logGroup,            \* this.logGroup
    logBucket,           \* this.logBucket
    role,                \* this.role
    grantPrincipal,      \* this.grantPrincipal
    principalPolicy,     \* statements added to roles with addToPrincipalPolicy / grants
    children,            \* ids of the constructs created under the task
    taskPolicies,        \* this.taskPolicies
    rendered,            \* what _renderTask() returned
    renderError          \* what _renderTask() threw

vars == <<props, pc, error, integrationPattern, logGroup, logBucket, role,
          grantPrincipal, principalPolicy, children, taskPolicies, rendered, renderError>>

(***************************************************************************)
(* JavaScript values.  Every value is a record with a type tag t.  A      *)
(* string is kept as its length and its text; an array is kept as runs of *)
(* equal items (item, count), in order.                                   *)
(***************************************************************************)
undefined == [t |-> "undefined"]

IsUndefined(v) == v.t = "undefined"

\* a literal string given by its text
Text(s) == [t |-> "string", len |-> Len(s), text |-> s, path |-> ""]

\* a literal string of n characters
Sized(n) == [t |-> "string", len |-> n, text |-> IF n = 0 THEN "" ELSE "a..", path |-> ""]

\* JsonPath.stringAt(p): the string token that encodes the JSON path p
JsonPathStringAt(p) ==
    [t |-> "string", len |-> Len("${Token[" \o p \o "]}"),
     text |-> "${Token[" \o p \o "]}", path |-> p]

Number(n) == [t |-> "number", n |-> n]

Bool(b) == [t |-> "boolean", b |-> b]

\* an array literal given as runs of equal items
Array(runs) == [t |-> "array", runs |-> runs]

\* a plain object with the keys 1..n
Object(n) == [t |-> "object", keys |-> 1..n]

RECURSIVE SumCounts(_)
SumCounts(runs) ==
    IF runs = <<>> THEN 0 ELSE Head(runs).count + SumCounts(Tail(runs))

\* value.length
Length(v) ==
    CASE v.t = "string" -> Number(v.len)
      [] v.t = "array"  -> Number(SumCounts(v.runs))
      [] OTHER          -> undefined

\* a > n and a < n for a number n; a comparison with undefined is false
GreaterThan(a, n) == a.t = "number" /\ a.n > n

LessThan(a, n) == a.t = "number" /\ a.n < n

\* the truthiness of a value
Truthy(v) ==
    CASE v.t = "undefined" -> FALSE
      [] v.t = "string"    -> v.len > 0
      [] v.t = "boolean"   -> v.b
      [] v.t = "number"    -> v.n # 0
      [] OTHER             -> TRUE

\* a ?? b
Coalesce(a, b) == IF IsUndefined(a) THEN b ELSE a

RECURSIVE Digits(_)
Digits(n) ==
    IF n < 10
    THEN SubSeq("0123456789", n + 1, n + 1)
    ELSE Digits(n \div 10) \o SubSeq("0123456789", (n % 10) + 1, (n % 10) + 1)

\* `${v}` of a template string
TemplateString(v) ==
    CASE v.t = "undefined" -> "undefined"
      [] v.t = "number"    -> Digits(v.n)
      [] v.t = "string"    -> v.text
      [] OTHER             -> "[object Object]"

\* array.join(sep) of a sequence of strings
RECURSIVE Join(_, _)
Join(seq, sep) ==
    IF seq = <<>> THEN ""
    ELSE IF Len(seq) = 1 THEN Head(seq)
    ELSE Head(seq) \o sep \o Join(Tail(seq), sep)

\* sfn.TaskInput
TaskInput(type, value) == [t |-> "TaskInput", type |-> type, value |-> value]

FromText(v) == TaskInput("TEXT", v)

FromObject(v) == TaskInput("OBJECT", v)

FromJsonPathAt(p) == TaskInput("TEXT", JsonPathStringAt(p))

\* sfn.JsonPath.isEncodedJsonPath(value)
isEncodedJsonPath(v) == v.t = "string" /\ v.path # ""

(***************************************************************************)
(* Errors                                                                  *)
(***************************************************************************)
NoError == [kind |-> "none", message |-> ""]

Error(kind, message) == [kind |-> kind, message |-> message]

(***************************************************************************)
(* sfn.IntegrationPattern and the integration pattern gate                 *)
(***************************************************************************)
REQUEST_RESPONSE == Text("REQUEST_RESPONSE")

RUN_JOB == Text("RUN_JOB")

WAIT_FOR_TASK_TOKEN == Text("WAIT_FOR_TASK_TOKEN")

\* a supported set that also lets the callback pattern through
StartJobRunSupportedWithToken == <<REQUEST_RESPONSE, RUN_JOB, WAIT_FOR_TASK_TOKEN>>

\* EmrContainersStartJobRun.SUPPORTED_INTEGRATION_PATTERNS
StartJobRun_SUPPORTED_INTEGRATION_PATTERNS == <<REQUEST_RESPONSE, RUN_JOB>>

\* EmrContainersCreateVirtualCluster.SUPPORTED_INTEGRATION_PATTERNS
CreateVirtualCluster_SUPPORTED_INTEGRATION_PATTERNS == <<REQUEST_RESPONSE>>

\* EmrContainersDeleteVirtualCluster.SUPPORTED_INTEGRATION_PATTERNS
DeleteVirtualCluster_SUPPORTED_INTEGRATION_PATTERNS == <<REQUEST_RESPONSE, RUN_JOB>>

SUPPORTED_INTEGRATION_PATTERNS(taskType) ==
    CASE taskType = "StartJobRun"          -> StartJobRun_SUPPORTED_INTEGRATION_PATTERNS
      [] taskType = "CreateVirtualCluster" -> CreateVirtualCluster_SUPPORTED_INTEGRATION_PATTERNS
      [] taskType = "DeleteVirtualCluster" -> DeleteVirtualCluster_SUPPORTED_INTEGRATION_PATTERNS

\* props.integrationPattern ?? <the default of the task type>
DefaultIntegrationPattern(taskType) ==
    CASE taskType = "CreateVirtualCluster" -> REQUEST_RESPONSE
      [] taskType = "StartJobRun"          -> RUN_JOB

\* supportedPatterns.includes(pattern)
Includes(seq, v) == \E i \in 1..Len(seq) : seq[i] = v

\* `${supportedPatterns}`: the array's toString, its elements joined by commas
PatternsToString(supported) ==
    Join([i \in 1..Len(supported) |-> TemplateString(supported[i])], ",")

UnsupportedPatternMessage(pattern, supported) ==
    "Unsupported service integration pattern. Supported Patterns: "
        \o PatternsToString(supported) \o ". Received: " \o TemplateString(pattern)

validatePatternSupported(pattern, supported) ==
    IF ~Includes(supported, pattern)
    THEN Error("UnsupportedPattern", UnsupportedPatternMessage(pattern, supported))
    ELSE NoError

(***************************************************************************)
(* The field rules of the EmrContainersStartJobRun constructor             *)
(***************************************************************************)
MaxAppConfigEntries == 100

MaxAppConfigProperties == 100

MaxEntryPointLength == 256

MaxEntryPointArguments == 10280

MaxSparkSubmitParameters == 102400

\* Object.keys(obj).length
KeyCount(obj) == Cardinality(obj.keys)

validateAppConfigPropertiesLength(appConfig) ==
    IF IsUndefined(appConfig.properties)
    THEN NoError
    ELSE IF KeyCount(appConfig.properties) > MaxAppConfigProperties
    THEN Error("AppConfigPropertiesLength",
               "Application configuration properties must have 100 or fewer entries. Received "
                   \o TemplateString(Length(appConfig.properties)))
    ELSE NoError

\* config.forEach(element => this.validateAppConfigPropertiesLength(element)):
\* the error of the first element, from run i on, whose check throws
RECURSIVE ForEachPropertiesLength(_, _)
ForEachPropertiesLength(runs, i) ==
    IF i > Len(runs) THEN NoError
    ELSE IF runs[i].count > 0 /\ validateAppConfigPropertiesLength(runs[i].item) # NoError
    THEN validateAppConfigPropertiesLength(runs[i].item)
    ELSE ForEachPropertiesLength(runs, i + 1)

RECURSIVE validateAppConfigLength(_)
RECURSIVE ForEachNestedConfig(_, _)

\* a validation that stops at the first level
SkipNestedConfig(runs, i) == NoError

\* config.forEach(element => this.validateAppConfigLength(element.nestedConfig))
ForEachNestedConfig(runs, i) ==
    IF i > Len(runs) THEN NoError
    ELSE IF runs[i].count > 0 /\ validateAppConfigLength(runs[i].item.nestedConfig) # NoError
    THEN validateAppConfigLength(runs[i].item.nestedConfig)
    ELSE ForEachNestedConfig(runs, i + 1)

validateAppConfigLength(config) ==
    IF IsUndefined(config)
    THEN NoError
    ELSE IF GreaterThan(Length(config), MaxAppConfigEntries)
    THEN Error("AppConfigLength",
               "Application configuration array must have 100 or fewer entries. Received "
                   \o TemplateString(Length(config)))
    ELSE IF ForEachPropertiesLength(config.runs, 1) # NoError
    THEN ForEachPropertiesLength(config.runs, 1)
    ELSE ForEachNestedConfig(config.runs, 1)

\* if (props.applicationConfig) { this.validateAppConfigLength(...) }
ValidateApplicationConfig(p) ==
    IF Truthy(p.applicationConfig)
    THEN validateAppConfigLength(p.applicationConfig)
    ELSE NoError

\* value.every(item => typeof item === 'string') over the runs of an array
EveryItemIsString(runs) ==
    \A i \in 1..Len(runs) : runs[i].count > 0 => runs[i].item.t = "string"

\* the test without the check of the items
isArrayOfAnything(value) == value.t = "array"

isArrayOfStrings(value) == value.t = "array" /\ EveryItemIsString(value.runs)

\* props.jobDriver.sparkSubmitJobDriver?.<field>
DriverField(p, field) ==
    IF IsUndefined(p.jobDriver.sparkSubmitJobDriver)
    THEN undefined
    ELSE p.jobDriver.sparkSubmitJobDriver[field]

\* the rule without its lower bound
ValidateEntryPointNoMinimum(p) ==
    LET entryPoint == DriverField(p, "entryPoint") IN
    IF /\ Truthy(entryPoint)
       /\ ~isEncodedJsonPath(entryPoint.value)
       /\ GreaterThan(Length(entryPoint.value), MaxEntryPointLength)
    THEN Error("EntryPointLength",
               "Entry point must be between 1 and 256 characters in length. Received "
                   \o TemplateString(Length(entryPoint.value)) \o ".")
    ELSE NoError

ValidateEntryPoint(p) ==
    LET entryPoint == DriverField(p, "entryPoint") IN
    IF /\ Truthy(entryPoint)
       /\ ~isEncodedJsonPath(entryPoint.value)
       /\ \/ GreaterThan(Length(entryPoint.value), MaxEntryPointLength)
          \/ LessThan(Length(entryPoint.value), 1)
    THEN Error("EntryPointLength",
               "Entry point must be between 1 and 256 characters in length. Received "
                   \o TemplateString(Length(entryPoint.value)) \o ".")
    ELSE NoError

ValidateEntryPointArgumentsType(p) ==
    LET arguments == DriverField(p, "entryPointArguments") IN
    IF /\ Truthy(arguments)
       /\ isArrayOfStrings(arguments.value) = FALSE
       /\ ~isEncodedJsonPath(arguments.value)
    THEN Error("EntryPointArgumentsType",
               "Entry point arguments must be a string array. Received " \o arguments.type)
    ELSE NoError

\* the rule applied to encoded JSON paths as well
ValidateEntryPointArgumentsLengthOfJsonPath(p) ==
    LET arguments == DriverField(p, "entryPointArguments") IN
    IF /\ Truthy(arguments)
       /\ \/ GreaterThan(Length(arguments.value), MaxEntryPointArguments)
          \/ LessThan(Length(arguments.value), 1)
    THEN Error("EntryPointArgumentsLength",
               "Entry point arguments must be an string array between 1 and 10280 in length. Received "
                   \o TemplateString(Length(arguments.value)) \o ".")
    ELSE NoError

ValidateEntryPointArgumentsLength(p) ==
    LET arguments == DriverField(p, "entryPointArguments") IN
    IF /\ Truthy(arguments)
       /\ \/ GreaterThan(Length(arguments.value), MaxEntryPointArguments)
          \/ LessThan(Length(arguments.value), 1)
       /\ ~isEncodedJsonPath(arguments.value)
    THEN Error("EntryPointArgumentsLength",
               "Entry point arguments must be an string array between 1 and 10280 in length. Received "
                   \o TemplateString(Length(arguments.value)) \o ".")
    ELSE NoError

ValidateSparkSubmitParameters(p) ==
    LET parameters == DriverField(p, "sparkSubmitParameters") IN
    IF /\ Truthy(parameters)
       /\ \/ GreaterThan(Length(parameters), MaxSparkSubmitParameters)
          \/ LessThan(Length(parameters), 1)
    THEN Error("SparkSubmitParametersLength",
               "Spark submit parameters must be between 1 and 102400 characters in length. Received "
                   \o TemplateString(Length(parameters)) \o ".")
    ELSE NoError

\* the rule with the JSON path test inverted
ValidateExecutionRoleInverted(p) ==
    IF IsUndefined(p.executionRole) /\ ~isEncodedJsonPath(p.virtualClusterId.value)
    THEN Error("MissingExecutionRole",
               "Execution role cannot be undefined when the virtual cluster ID is not a concrete value. Provide an execution role with the correct trust policy")
    ELSE NoError

ValidateExecutionRole(p) ==
    IF IsUndefined(p.executionRole) /\ isEncodedJsonPath(p.virtualClusterId.value)
    THEN Error("MissingExecutionRole",
               "Execution role cannot be undefined when the virtual cluster ID is not a concrete value. Provide an execution role with the correct trust policy")
    ELSE NoError

(***************************************************************************)
(* Constructs, roles and policy statements                                 *)
(***************************************************************************)
\* a construct created with `new X(this, id, ...)` or supplied by the caller
Construct(type, id) == [t |-> type, id |-> id]

\* role.roleArn
RoleArn(r) == "{" \o r.id \o ".Arn}"

\* cdk.Stack.of(this).formatArn({ service, region, resource, resourceName })
formatArn(service, region, resource, resourceName) ==
    "arn:{Partition}:" \o service \o ":" \o region \o ":{AccountId}:"
        \o resource \o "/" \o resourceName

\* new iam.PolicyStatement({ resources, actions, conditions })
PolicyStatement(resources, actions, conditions) ==
    [resources |-> resources, actions |-> actions, conditions |-> conditions]

\* the statement grantMonitoringPolicies adds to the role
LogsStatement ==
    PolicyStatement(<<"arn:aws:logs:*:*:*">>,
                    <<"logs:PutLogEvents", "logs:CreateLogStream",
                      "logs:DescribeLogGroups", "logs:DescribeLogStreams">>,
                    <<>>)

\* reading a property of undefined
UndefinedAccess(property) ==
    Error("TypeError", "Cannot read property '" \o property \o "' of undefined")

\* this.logGroup = monitoring?.logGroup ?? monitoring?.logging ? new logs.LogGroup(...) : undefined
\* (?? binds tighter than ?:, so the condition is `logGroup ?? logging`)
MonitoringField(p, field) ==
    IF IsUndefined(p.monitoring) THEN undefined ELSE p.monitoring[field]

MonitoringLogGroup(p) ==
    IF Truthy(Coalesce(MonitoringField(p, "logGroup"), MonitoringField(p, "logging")))
    THEN Construct("LogGroup", "Monitoring Log Group")
    ELSE undefined

MonitoringLogBucket(p) ==
    IF Truthy(Coalesce(MonitoringField(p, "logBucket"), MonitoringField(p, "logging")))
    THEN Construct("Bucket", "Monitoring Bucket")
    ELSE undefined

\* grantMonitoringPolicies() adding its logs statement twice
grantMonitoringPoliciesTwice(thisRole, bucket, policy) ==
    IF ~IsUndefined(bucket) /\ IsUndefined(thisRole)
    THEN [error |-> UndefinedAccess("grantPrincipal"), policy |-> policy]
    ELSE LET granted ==
                 IF IsUndefined(bucket) THEN policy
                 ELSE Append(policy, [principal |-> thisRole.id,
                                      statement |-> PolicyStatement(<<bucket.id>>, <<"s3:ReadWrite">>, <<>>)])
         IN  IF IsUndefined(thisRole)
             THEN [error |-> UndefinedAccess("addToPrincipalPolicy"), policy |-> granted]
             ELSE [error |-> NoError,
                   policy |-> granted \o <<[principal |-> thisRole.id, statement |-> LogsStatement],
                                           [principal |-> thisRole.id, statement |-> LogsStatement]>>]

\* grantMonitoringPolicies(): thisRole is this.role at the time of the call.
\* Returns the error thrown, if any, and the statements on principals.
grantMonitoringPolicies(thisRole, bucket, policy) ==
    IF ~IsUndefined(bucket) /\ IsUndefined(thisRole)
    THEN [error |-> UndefinedAccess("grantPrincipal"), policy |-> policy]
    ELSE LET granted ==
                 IF IsUndefined(bucket) THEN policy
                 ELSE Append(policy, [principal |-> thisRole.id,
                                      statement |-> PolicyStatement(<<bucket.id>>, <<"s3:ReadWrite">>, <<>>)])
         IN  IF IsUndefined(thisRole)
             THEN [error |-> UndefinedAccess("addToPrincipalPolicy"), policy |-> granted]
             ELSE [error |-> NoError,
                   policy |-> Append(granted, [principal |-> thisRole.id, statement |-> LogsStatement])]

\* updateRoleTrustPolicy(role): the custom resource that describes the virtual
\* cluster and the singleton function that updates the role's trust policy
updateRoleTrustPolicy(p, jobExecutionRole, kids, policy) ==
    [children |-> kids \o <<"GetEksClusterInfo", "awsclilayer", "Call Update-Role-Trust-Policy",
                            "CustomResourceProvider", "Custom Resource">>,
     policy |-> policy \o
         <<[principal |-> "Call Update-Role-Trust-Policy",
            statement |-> PolicyStatement(
                <<formatArn("eks", "{Region}", "cluster", "{GetEksClusterInfo.virtualCluster.containerProvider.id}")>>,
                <<"eks:DescribeCluster">>, <<>>)],
           [principal |-> "Call Update-Role-Trust-Policy",
            statement |-> PolicyStatement(<<RoleArn(jobExecutionRole)>>,
                                          <<"iam:GetRole", "iam:UpdateAssumeRolePolicy">>, <<>>)]>>]

\* createJobExecutionRole(): thisRole is this.role at the time of the call
createJobExecutionRole(p, thisRole, bucket, kids, policy) ==
    LET jobExecutionRole == Construct("Role", "Job-Execution-Role")
        created == Append(kids, jobExecutionRole.id)
        granted == grantMonitoringPolicies(thisRole, bucket, policy)
        updated == updateRoleTrustPolicy(p, jobExecutionRole, created, granted.policy)
    IN  IF granted.error # NoError
        THEN [error |-> granted.error, role |-> undefined,
              children |-> created, policy |-> granted.policy]
        ELSE [error |-> NoError, role |-> jobExecutionRole,
              children |-> updated.children, policy |-> updated.policy]

\* this.role = this.props.executionRole ?? this.createJobExecutionRole()
ExecutionRole(p, thisRole, bucket, kids, policy) ==
    IF ~IsUndefined(p.executionRole)
    THEN [error |-> NoError, role |-> p.executionRole, children |-> kids, policy |-> policy]
    ELSE createJobExecutionRole(p, thisRole, bucket, kids, policy)

\* a resource name that is the wildcard for every cluster id
ClusterResourceNameAlwaysWildcard(p, suffix) == "*"

\* the resource name of the virtual cluster in a task policy
ClusterResourceName(p, suffix) ==
    IF isEncodedJsonPath(p.virtualClusterId.value)
    THEN "*"
    ELSE TemplateString(p.virtualClusterId.value) \o suffix

\* the derivation with the job run statement pushed whatever the pattern is
StartJobRun_createPolicyStatementsAnyPattern(p, pattern, thisRole) ==
    <<PolicyStatement(
          <<formatArn("emr-containers", "{Region}", "/virtualclusters", ClusterResourceName(p, ""))>>,
          <<"emr-containers:StartJobRun">>,
          <<[operator |-> "StringEquals", key |-> "emr-containers:ExecutionRoleArn",
             value |-> RoleArn(thisRole)]>>),
      PolicyStatement(
          <<formatArn("emr-containers", "{Region}", "/virtualclusters",
                      ClusterResourceName(p, "/jobruns/*"))>>,
          <<"emr-containers:DescribeJobRun", "emr-containers:CancelJobRun">>,
          <<>>)>>

\* EmrContainersStartJobRun.createPolicyStatements()
StartJobRun_createPolicyStatements(p, pattern, thisRole) ==
    LET policyStatements ==
            <<PolicyStatement(
                <<formatArn("emr-containers", "{Region}", "/virtualclusters", ClusterResourceName(p, ""))>>,
                <<"emr-containers:StartJobRun">>,
                <<[operator |-> "StringEquals", key |-> "emr-containers:ExecutionRoleArn",
                   value |-> RoleArn(thisRole)]>>)>>
    IN  IF pattern = RUN_JOB
        THEN Append(policyStatements,
                 PolicyStatement(
                     <<formatArn("emr-containers", "{Region}", "/virtualclusters",
                                 ClusterResourceName(p, "/jobruns/*"))>>,
                     <<"emr-containers:DescribeJobRun", "emr-containers:CancelJobRun">>,
                     <<>>))
        ELSE policyStatements

\* the second statement on every resource and without a condition
CreateVirtualCluster_createPolicyStatementsUnscoped ==
    <<PolicyStatement(<<"*">>, <<"emr-containers:CreateVirtualCluster">>, <<>>),
      PolicyStatement(<<"*">>, <<"iam:CreateServiceLinkedRole">>, <<>>)>>

\* EmrContainersCreateVirtualCluster.createPolicyStatements()
CreateVirtualCluster_createPolicyStatements ==
    <<PolicyStatement(<<"*">>, <<"emr-containers:CreateVirtualCluster">>, <<>>),
      PolicyStatement(
          <<formatArn("iam", "", "role/aws-service-role/emr-containers.amazonaws.com",
                      "AWSServiceRoleForAmazonEMRContainers")>>,
          <<"iam:CreateServiceLinkedRole">>,
          <<[operator |-> "StringLike", key |-> "iam:AWSServiceName",
             value |-> "emr-containers.amazonaws.com"]>>)>>

(***************************************************************************)
(* The props a task is constructed from                                    *)
(***************************************************************************)
Run(item, count) == [item |-> item, count |-> count]

\* an ApplicationConfiguration
Configuration(properties, nestedConfig) ==
    [t |-> "object", classification |-> "spark-defaults", properties |-> properties,
     nestedConfig |-> nestedConfig]

PatternInputs == {undefined, REQUEST_RESPONSE, RUN_JOB, WAIT_FOR_TASK_TOKEN}

ClusterIdInputs ==
    {FromText(Text("x01f27i9a7cv1td52keaktr6j")), FromJsonPathAt("$.ClusterId")}

ExecutionRoleInputs == {undefined, Construct("Role", "SuppliedRole")}

EntryPointInputs ==
    {FromText(Sized(n)) : n \in {0, 1, MaxEntryPointLength, MaxEntryPointLength + 1}}
        \cup {FromJsonPathAt("$.entryPoint")}

EntryPointArgumentsInputs ==
    {undefined,
     FromJsonPathAt("$.entryPointArguments"),
     FromText(Sized(5)),
     FromObject(Object(1)),
     FromObject(Array(<<>>)),
     FromObject(Array(<<Run(Sized(3), 1)>>)),
     FromObject(Array(<<Run(Sized(MaxEntryPointArguments + 1), 1)>>)),
     FromObject(Array(<<Run(Sized(3), 1), Run(Number(7), 1)>>)),
     FromObject(Array(<<Run(Sized(3), MaxEntryPointArguments)>>)),
     FromObject(Array(<<Run(Sized(3), MaxEntryPointArguments + 1)>>))}

SparkSubmitParametersInputs ==
    {undefined} \cup
    {Sized(n) : n \in {0, 1, MaxSparkSubmitParameters, MaxSparkSubmitParameters + 1}}

JobDriverInputs ==
    {[sparkSubmitJobDriver |-> undefined]} \cup
    {[sparkSubmitJobDriver |->
          [t |-> "object", entryPoint |-> e, entryPointArguments |-> a, sparkSubmitParameters |-> s]] :
        e \in EntryPointInputs, a \in EntryPointArgumentsInputs,
        s \in SparkSubmitParametersInputs}

\* a Monitoring with every field given
MonitoringWith(logging, group, bucket, prefix, persistentAppUI) ==
    [t |-> "object", logging |-> logging, logGroup |-> group, logBucket |-> bucket,
     logStreamNamePrefix |-> prefix, persistentAppUI |-> persistentAppUI]

Monitoring(logging, group, bucket) ==
    MonitoringWith(logging, group, bucket, undefined, undefined)

MonitoringInputs ==
    {undefined,
     Monitoring(Bool(TRUE), undefined, undefined),
     Monitoring(undefined, Construct("LogGroup", "SuppliedLogGroup"),
                Construct("Bucket", "SuppliedBucket"))}

ApplicationConfigInputs ==
    {undefined,
     Array(<<Run(Configuration(Object(MaxAppConfigProperties), undefined), MaxAppConfigEntries)>>),
     Array(<<Run(Configuration(undefined, undefined), MaxAppConfigEntries + 1)>>)}

\* a field of an object literal
Field(key, value) == [key |-> key, value |-> value]

\* an object literal given as its fields, in insertion order
ObjectLiteral(fields) == [t |-> "record", fields |-> fields]

\* tags?: { [key: string]: string }
TagInputs ==
    {undefined,
     ObjectLiteral(<<>>),
     ObjectLiteral(<<Field("team", Text("data")), Field("env", Text("prod"))>>),
     ObjectLiteral(<<Field("env", Text("prod")), Field("team", Text("data"))>>)}

\* jobName?: string, virtuaClusterName?: string, eksNamespace?: string
NameInputs == {undefined, Text("name")}

StartJobRunProps(configs, drivers, monitorings, tagSets, names) ==
    [taskType : {"StartJobRun"},
     integrationPattern : PatternInputs,
     virtualClusterId : ClusterIdInputs,
     releaseLabel : {[label |-> Text("emr-6.2.0-latest")]},
     jobName : names,
     executionRole : ExecutionRoleInputs,
     applicationConfig : configs,
     jobDriver : drivers,
     monitoring : monitorings,
     tags : tagSets]

CreateVirtualClusterProps ==
    [taskType : {"CreateVirtualCluster"},
     integrationPattern : PatternInputs,
     eksCluster : {[clusterName |-> Text("test-eks")],
                   [clusterName |-> JsonPathStringAt("$.EksCluster")]},
     eksNamespace : NameInputs,
     virtuaClusterName : NameInputs,
     tags : TagInputs]

\* the tasks of the tests of DeleteVirtualCluster, which all give a pattern
DeleteVirtualClusterProps ==
    [taskType : {"DeleteVirtualCluster"}, integrationPattern : PatternInputs \ {undefined},
     virtualClusterId : ClusterIdInputs]

(***************************************************************************)
(* The state before the constructor body runs                              *)
(***************************************************************************)
InitWith(inputs) ==
    /\ props \in inputs
    /\ pc = "start"
    /\ error = NoError
    /\ integrationPattern = undefined
    /\ logGroup = undefined
    /\ logBucket = undefined
    /\ role = undefined
    /\ grantPrincipal = undefined
    /\ principalPolicy = <<>>
    /\ children = <<>>
    /\ taskPolicies = undefined
    /\ rendered = undefined
    /\ renderError = NoError

Init ==
    InitWith(StartJobRunProps(ApplicationConfigInputs, JobDriverInputs, MonitoringInputs,
                              {undefined}, {undefined})
                 \cup CreateVirtualClusterProps \cup DeleteVirtualClusterProps)

(***************************************************************************)
(* The constructors, one action per statement block                        *)
(***************************************************************************)
\* the gate placed after the entry point rule instead of first
ValidatePatternAfterEntryPoint ==
    LET pattern == Coalesce(props.integrationPattern, DefaultIntegrationPattern(props.taskType))
        gate == validatePatternSupported(pattern, SUPPORTED_INTEGRATION_PATTERNS(props.taskType))
        field == IF props.taskType = "StartJobRun" THEN ValidateEntryPoint(props) ELSE NoError
        thrown == IF field # NoError THEN field ELSE gate
    IN  /\ pc = "start"
        /\ integrationPattern' = pattern
        /\ error' = thrown
        /\ pc' = IF thrown # NoError THEN "failed"
                 ELSE IF props.taskType = "StartJobRun" THEN "applicationConfig"
                 ELSE IF props.taskType = "CreateVirtualCluster" THEN "taskPolicies"
                 ELSE "constructed"
        /\ UNCHANGED <<props, rendered, renderError, logGroup, logBucket, role, grantPrincipal, principalPolicy,
                       children, taskPolicies>>

\* this.integrationPattern = props.integrationPattern ?? <default>;
\* validatePatternSupported(this.integrationPattern, SUPPORTED_INTEGRATION_PATTERNS)
ValidatePattern ==
    LET pattern == Coalesce(props.integrationPattern, DefaultIntegrationPattern(props.taskType))
        thrown == validatePatternSupported(pattern, SUPPORTED_INTEGRATION_PATTERNS(props.taskType))
    IN  /\ pc = "start"
        /\ integrationPattern' = pattern
        /\ error' = thrown
        /\ pc' = IF thrown # NoError THEN "failed"
                 ELSE IF props.taskType = "StartJobRun" THEN "applicationConfig"
                 ELSE IF props.taskType = "CreateVirtualCluster" THEN "taskPolicies"
                 ELSE "constructed"
        /\ UNCHANGED <<props, rendered, renderError, logGroup, logBucket, role, grantPrincipal, principalPolicy,
                       children, taskPolicies>>

\* if (props.applicationConfig) ...
CheckApplicationConfig ==
    LET thrown == ValidateApplicationConfig(props)
    IN  /\ pc = "applicationConfig"
        /\ error' = thrown
        /\ pc' = IF thrown # NoError THEN "failed" ELSE "entryPoint"
        /\ UNCHANGED <<props, rendered, renderError, integrationPattern, logGroup, logBucket, role, grantPrincipal,
                       principalPolicy, children, taskPolicies>>

\* if (entryPoint && !isEncodedJsonPath && (length > 256 || length < 1)) throw
CheckEntryPoint ==
    LET thrown == ValidateEntryPoint(props)
    IN  /\ pc = "entryPoint"
        /\ error' = thrown
        /\ pc' = IF thrown # NoError THEN "failed" ELSE "entryPointArgumentsType"
        /\ UNCHANGED <<props, rendered, renderError, integrationPattern, logGroup, logBucket, role, grantPrincipal,
                       principalPolicy, children, taskPolicies>>

\* if (entryPointArguments && isArrayOfStrings === false && !isEncodedJsonPath) throw
CheckEntryPointArgumentsType ==
    LET thrown == ValidateEntryPointArgumentsType(props)
    IN  /\ pc = "entryPointArgumentsType"
        /\ error' = thrown
        /\ pc' = IF thrown # NoError THEN "failed" ELSE "entryPointArgumentsLength"
        /\ UNCHANGED <<props, rendered, renderError, integrationPattern, logGroup, logBucket, role, grantPrincipal,
                       principalPolicy, children, taskPolicies>>

\* if (entryPointArguments && (length > 10280 || length < 1) && !isEncodedJsonPath) throw
CheckEntryPointArgumentsLength ==
    LET thrown == ValidateEntryPointArgumentsLength(props)
    IN  /\ pc = "entryPointArgumentsLength"
        /\ error' = thrown
        /\ pc' = IF thrown # NoError THEN "failed" ELSE "sparkSubmitParameters"
        /\ UNCHANGED <<props, rendered, renderError, integrationPattern, logGroup, logBucket, role, grantPrincipal,
                       principalPolicy, children, taskPolicies>>

\* if (sparkSubmitParameters && (length > 102400 || length < 1)) throw
CheckSparkSubmitParameters ==
    LET thrown == ValidateSparkSubmitParameters(props)
    IN  /\ pc = "sparkSubmitParameters"
        /\ error' = thrown
        /\ pc' = IF thrown # NoError THEN "failed" ELSE "executionRole"
        /\ UNCHANGED <<props, rendered, renderError, integrationPattern, logGroup, logBucket, role, grantPrincipal,
                       principalPolicy, children, taskPolicies>>

\* if (executionRole === undefined && isEncodedJsonPath(virtualClusterId)) throw
CheckExecutionRole ==
    LET thrown == ValidateExecutionRole(props)
    IN  /\ pc = "executionRole"
        /\ error' = thrown
        /\ pc' = IF thrown # NoError THEN "failed" ELSE "monitoring"
        /\ UNCHANGED <<props, rendered, renderError, integrationPattern, logGroup, logBucket, role, grantPrincipal,
                       principalPolicy, children, taskPolicies>>

\* this.logGroup = ...; this.logBucket = ...
CreateMonitoringResources ==
    /\ pc = "monitoring"
    /\ logGroup' = MonitoringLogGroup(props)
    /\ logBucket' = MonitoringLogBucket(props)
    /\ children' = children
           \o (IF IsUndefined(logGroup') THEN <<>> ELSE <<logGroup'.id>>)
           \o (IF IsUndefined(logBucket') THEN <<>> ELSE <<logBucket'.id>>)
    /\ pc' = "role"
    /\ UNCHANGED <<props, rendered, renderError, error, integrationPattern, role, grantPrincipal, principalPolicy,
                   taskPolicies>>

\* this.role = this.props.executionRole ?? this.createJobExecutionRole();
\* this.grantPrincipal = this.role
AssignRole ==
    LET result == ExecutionRole(props, role, logBucket, children, principalPolicy)
    IN  /\ pc = "role"
        /\ error' = result.error
        /\ children' = result.children
        /\ principalPolicy' = result.policy
        /\ role' = IF result.error # NoError THEN role ELSE result.role
        /\ grantPrincipal' = IF result.error # NoError THEN grantPrincipal ELSE result.role
        /\ pc' = IF result.error # NoError THEN "failed" ELSE "grantMonitoringPolicies"
        /\ UNCHANGED <<props, rendered, renderError, integrationPattern, logGroup, logBucket, taskPolicies>>

\* this.grantMonitoringPolicies()
GrantMonitoringPolicies ==
    LET result == grantMonitoringPolicies(role, logBucket, principalPolicy)
    IN  /\ pc = "grantMonitoringPolicies"
        /\ error' = result.error
        /\ principalPolicy' = result.policy
        /\ pc' = IF result.error # NoError THEN "failed" ELSE "taskPolicies"
        /\ UNCHANGED <<props, rendered, renderError, integrationPattern, logGroup, logBucket, role, grantPrincipal,
                       children, taskPolicies>>

\* this.taskPolicies = this.createPolicyStatements()
CreatePolicyStatements ==
    /\ pc = "taskPolicies"
    /\ taskPolicies' =
           IF props.taskType = "StartJobRun"
           THEN StartJobRun_createPolicyStatements(props, integrationPattern, role)
           ELSE CreateVirtualCluster_createPolicyStatements
    /\ pc' = "constructed"
    /\ UNCHANGED <<props, rendered, renderError, error, integrationPattern, logGroup, logBucket, role,
                   grantPrincipal, principalPolicy, children>>

(***************************************************************************)
(* Rendering: _renderTask() and what it calls.  A call returns the value  *)
(* it returned or the error it threw.                                     *)
(***************************************************************************)
Returned(value) == [error |-> NoError, value |-> value]

Thrown(err) == [error |-> err, value |-> undefined]

\* the suffix integrationResourceArn appends for an integration pattern
resourceArnSuffix(pattern) ==
    CASE pattern = REQUEST_RESPONSE    -> ""
      [] pattern = RUN_JOB             -> ".sync"
      [] pattern = WAIT_FOR_TASK_TOKEN -> ".waitForTaskToken"

\* integrationResourceArn(service, api, integrationPattern)
integrationResourceArn(service, api, pattern) ==
    Text("arn:{Partition}:states:::" \o service \o ":" \o api
             \o (IF Truthy(pattern) THEN resourceArnSuffix(pattern) ELSE ""))

\* sfn.FieldUtils.renderObject(obj): a field whose value is undefined is left
\* out, a field whose value is an encoded JSON path is rendered as the path
\* under the key with the suffix .$, objects and arrays are rendered in depth
RECURSIVE renderObject(_), renderFields(_), renderItems(_)
renderFields(fields) ==
    IF fields = <<>> THEN <<>>
    ELSE LET field == Head(fields)
             rest == renderFields(Tail(fields))
         IN  IF IsUndefined(field.value) THEN rest
             ELSE IF isEncodedJsonPath(field.value)
             THEN <<Field(field.key \o ".$", Text(field.value.path))>> \o rest
             ELSE <<Field(field.key, renderObject(field.value))>> \o rest

renderItems(runs) ==
    IF runs = <<>> THEN <<>>
    ELSE <<Run(renderObject(Head(runs).item), Head(runs).count)>> \o renderItems(Tail(runs))

renderObject(v) ==
    CASE v.t = "record" -> ObjectLiteral(renderFields(v.fields))
      [] v.t = "array"  -> Array(renderItems(v.runs))
      [] OTHER          -> v

\* applicationConfigPropertyToJson(property), a method: thisValue is the value
\* of `this` in the call.  cdk.listMapper(this.applicationConfigPropertyToJson)
\* hands the method to Array.prototype.map, which calls it with no `this`.
RECURSIVE applicationConfigPropertyToJson(_, _), MapApplicationConfig(_), listMapper(_)
applicationConfigPropertyToJson(thisValue, property) ==
    LET configurations ==
            IF ~Truthy(property.nestedConfig) THEN Returned(undefined)
            ELSE IF IsUndefined(thisValue)
            THEN Thrown(UndefinedAccess("applicationConfigPropertyToJson"))
            ELSE listMapper(property.nestedConfig)
    IN  IF configurations.error # NoError THEN configurations
        ELSE Returned(ObjectLiteral(
                 <<Field("Classification", Text(property.classification)),
                   Field("Properties",
                         IF Truthy(property.properties) THEN property.properties ELSE undefined),
                   Field("Configurations", configurations.value)>>))

\* x.map(elementMapper): the mapped items in order, or the first error thrown
MapApplicationConfig(runs) ==
    IF runs = <<>> THEN Returned(<<>>)
    ELSE LET first == applicationConfigPropertyToJson(undefined, Head(runs).item)
             rest == MapApplicationConfig(Tail(runs))
         IN  IF first.error # NoError THEN first
             ELSE IF rest.error # NoError THEN rest
             ELSE Returned(<<Run(first.value, Head(runs).count)>> \o rest.value)

\* cdk.listMapper(this.applicationConfigPropertyToJson)(list)
listMapper(list) ==
    IF IsUndefined(list) THEN Returned(list)
    ELSE LET mapped == MapApplicationConfig(list.runs)
         IN  IF mapped.error # NoError THEN mapped ELSE Returned(Array(mapped.value))

\* Object.keys(tags).map((key) => ({ Key: key, Value: tags[key] }))
RECURSIVE KeyValuePairs(_)
KeyValuePairs(fields) ==
    IF fields = <<>> THEN <<>>
    ELSE <<Run(ObjectLiteral(<<Field("Key", Text(Head(fields).key)),
                               Field("Value", Head(fields).value)>>), 1)>>
             \o KeyValuePairs(Tail(fields))

\* renderTags(tags)
renderTags(tags) ==
    IF Truthy(tags)
    THEN ObjectLiteral(<<Field("Tags", Array(KeyValuePairs(tags.fields)))>>)
    ELSE ObjectLiteral(<<>>)

\* logGroup.logGroupName
LogGroupName(group) == Text("{" \o group.id \o ".Name}")

\* logBucket.s3UrlForObject()
s3UrlForObject(bucket) == Text("s3://{" \o bucket.id \o "}")

\* the value of TaskInput | undefined
ValueOf(input) == IF IsUndefined(input) THEN undefined ELSE input.value

\* EmrContainersStartJobRun._renderTask()
StartJobRun_renderTask(p, pattern, thisRole, group, bucket) ==
    LET applicationConfiguration == listMapper(p.applicationConfig)
    IN  IF applicationConfiguration.error # NoError THEN applicationConfiguration
        ELSE Returned(ObjectLiteral(
          <<Field("Resource", integrationResourceArn("emr-containers", "startJobRun", pattern)),
            Field("Parameters", renderObject(ObjectLiteral(
              <<Field("VirtualClusterId", p.virtualClusterId.value),
                Field("Name", p.jobName),
                Field("ExecutionRoleArn", Text(RoleArn(thisRole))),
                Field("ReleaseLabel", p.releaseLabel.label),
                Field("JobDriver", ObjectLiteral(
                  <<Field("SparkSubmitJobDriver", ObjectLiteral(
                      <<Field("EntryPoint", ValueOf(DriverField(p, "entryPoint"))),
                        Field("EntryPointArguments",
                              ValueOf(DriverField(p, "entryPointArguments"))),
                        Field("SparkSubmitParameters",
                              DriverField(p, "sparkSubmitParameters"))>>))>>)),
                Field("ConfigurationOverrides", ObjectLiteral(
                  <<Field("ApplicationConfiguration", applicationConfiguration.value),
                    Field("MonitoringConfiguration", ObjectLiteral(
                      <<Field("CloudWatchMonitoringConfiguration",
                              IF Truthy(group)
                              THEN ObjectLiteral(
                                     <<Field("LogGroupName", LogGroupName(group)),
                                       Field("LogStreamNamePrefix",
                                             MonitoringField(p, "logStreamNamePrefix"))>>)
                              ELSE undefined),
                        Field("PersistentAppUI",
                              IF MonitoringField(p, "persistentAppUI") = Bool(FALSE)
                              THEN Text("DISABLED") ELSE Text("ENABLED")),
                        Field("S3MonitoringConfiguration",
                              IF Truthy(bucket)
                              THEN ObjectLiteral(<<Field("LogUri", s3UrlForObject(bucket))>>)
                              ELSE undefined)>>)),
                    Field("Tags",
                          IF Truthy(p.tags) THEN renderTags(p.tags) ELSE undefined)>>))>>)))>>))

\* EmrContainersCreateVirtualCluster._renderTask()
CreateVirtualCluster_renderTask(p, pattern) ==
    Returned(ObjectLiteral(
      <<Field("Resource", integrationResourceArn("emr-containers", "createVirtualCluster", pattern)),
        Field("Parameters", renderObject(ObjectLiteral(
          <<Field("Name", Coalesce(p.virtuaClusterName, Text("{UniqueId}"))),
            Field("ContainerProvider", ObjectLiteral(
              <<Field("Id", p.eksCluster.clusterName),
                Field("Info", ObjectLiteral(
                  <<Field("EksInfo", ObjectLiteral(
                      <<Field("Namespace", Coalesce(p.eksNamespace, Text("default")))>>))>>)),
                Field("Type", Text("EKS"))>>)),
            Field("Tags", p.tags)>>)))>>))

\* EmrContainersDeleteVirtualCluster._renderTask()
DeleteVirtualCluster_renderTask(p, pattern) ==
    Returned(ObjectLiteral(
      <<Field("Resource", integrationResourceArn("emr-containers", "deleteVirtualCluster", pattern)),
        Field("Parameters", renderObject(ObjectLiteral(
          <<Field("Id", p.virtualClusterId.value)>>)))>>))

\* rendering with the pattern of the props instead of this.integrationPattern
RenderTaskWithGivenPattern ==
    LET result ==
            CASE props.taskType = "StartJobRun" ->
                     StartJobRun_renderTask(props, props.integrationPattern, role, logGroup,
                                            logBucket)
              [] props.taskType = "CreateVirtualCluster" ->
                     CreateVirtualCluster_renderTask(props, props.integrationPattern)
              [] props.taskType = "DeleteVirtualCluster" ->
                     DeleteVirtualCluster_renderTask(props, props.integrationPattern)
    IN  /\ pc = "constructed"
        /\ rendered' = result.value
        /\ renderError' = result.error
        /\ pc' = IF result.error # NoError THEN "renderFailed" ELSE "rendered"
        /\ UNCHANGED <<props, error, integrationPattern, logGroup, logBucket, role,
                       grantPrincipal, principalPolicy, children, taskPolicies>>

\* toStateJson() of a constructed task: this._renderTask()
RenderTask ==
    LET result ==
            CASE props.taskType = "StartJobRun" ->
                     StartJobRun_renderTask(props, integrationPattern, role, logGroup, logBucket)
              [] props.taskType = "CreateVirtualCluster" ->
                     CreateVirtualCluster_renderTask(props, integrationPattern)
              [] props.taskType = "DeleteVirtualCluster" ->
                     DeleteVirtualCluster_renderTask(props, integrationPattern)
    IN  /\ pc = "constructed"
        /\ rendered' = result.value
        /\ renderError' = result.error
        /\ pc' = IF result.error # NoError THEN "renderFailed" ELSE "rendered"
        /\ UNCHANGED <<props, error, integrationPattern, logGroup, logBucket, role,
                       grantPrincipal, principalPolicy, children, taskPolicies>>

Next ==
    \/ ValidatePattern
    \/ CheckApplicationConfig
    \/ CheckEntryPoint
    \/ CheckEntryPointArgumentsType
    \/ CheckEntryPointArgumentsLength
    \/ CheckSparkSubmitParameters
    \/ CheckExecutionRole
    \/ CreateMonitoringResources
    \/ AssignRole
    \/ GrantMonitoringPolicies
    \/ CreatePolicyStatements
    \/ RenderTask

Spec == Init /\ [][Next]_vars

(***************************************************************************)
(* Construction over application configuration trees: every tree of        *)
(* nesting depth up to MaxNesting whose levels hold 0, 1, 100 or 101        *)
(* configurations and whose nodes hold no, 100 or 101 properties.           *)
(***************************************************************************)
MaxNesting == 2

PlainConfiguration == Configuration(undefined, undefined)

\* the arrays that hold the configuration c: alone, as the last of 100, 101 times
ArraysAround(c) ==
    {Array(<<Run(c, 1)>>),
     Array(<<Run(PlainConfiguration, MaxAppConfigEntries - 1), Run(c, 1)>>),
     Array(<<Run(c, MaxAppConfigEntries + 1)>>)}

RECURSIVE ConfigurationArrays(_)
ConfigurationArrays(depth) ==
    LET leaves == {Configuration(properties, undefined) :
                       properties \in {undefined, Object(MaxAppConfigProperties),
                                       Object(MaxAppConfigProperties + 1)}}
        parents == IF depth = 0 THEN {}
                   ELSE {Configuration(properties, nested) :
                             properties \in {undefined, Object(MaxAppConfigProperties + 1)},
                             nested \in ConfigurationArrays(depth - 1)}
    IN  {Array(<<>>)} \cup UNION {ArraysAround(c) : c \in leaves \cup parents}

ValidJobDriver ==
    [sparkSubmitJobDriver |->
         [t |-> "object", entryPoint |-> FromText(Sized(1)),
          entryPointArguments |-> undefined, sparkSubmitParameters |-> undefined]]

InitAppConfig ==
    InitWith(StartJobRunProps({undefined} \cup ConfigurationArrays(MaxNesting),
                              {[sparkSubmitJobDriver |-> undefined], ValidJobDriver},
                              {undefined}, {undefined}, {undefined})
                 \cup CreateVirtualClusterProps \cup DeleteVirtualClusterProps)

SpecAppConfig == InitAppConfig /\ [][Next]_vars

(***************************************************************************)
(* Construction and rendering over the props that rendering reads:         *)
(* monitoring options, tags, names, configuration trees and job drivers    *)
(* given as literals and as encoded JSON paths of any length.              *)
(***************************************************************************)
\* the token that encodes a JSON path long enough for the token to have n characters
JsonPathSized(n) == [t |-> "string", len |-> n, text |-> "${Token[..]}", path |-> "$.."]

SuppliedLogGroup == Construct("LogGroup", "SuppliedLogGroup")

SuppliedBucket == Construct("Bucket", "SuppliedBucket")

RenderMonitoringInputs ==
    {undefined,
     Monitoring(Bool(TRUE), undefined, undefined),
     Monitoring(Bool(FALSE), undefined, undefined),
     Monitoring(undefined, SuppliedLogGroup, undefined),
     Monitoring(undefined, undefined, SuppliedBucket),
     Monitoring(undefined, SuppliedLogGroup, SuppliedBucket),
     Monitoring(Bool(FALSE), SuppliedLogGroup, SuppliedBucket),
     Monitoring(Bool(TRUE), SuppliedLogGroup, undefined),
     MonitoringWith(Bool(TRUE), undefined, undefined, Text("prefix"), Bool(FALSE))}

RenderApplicationConfigInputs ==
    {undefined,
     Array(<<>>),
     Array(<<Run(Configuration(Object(1), undefined), 1),
             Run(Configuration(Object(2), undefined), 1)>>),
     Array(<<Run(Configuration(Object(2), undefined), 1),
             Run(Configuration(Object(1), undefined), 1)>>),
     Array(<<Run(Configuration(undefined, Array(<<>>)), 1)>>),
     Array(<<Run(Configuration(Object(1), undefined), 1),
             Run(Configuration(Object(2),
                               Array(<<Run(Configuration(Object(1), undefined), 1)>>)), 1)>>)}

SparkSubmitJobDriver(entryPoint, entryPointArguments) ==
    [sparkSubmitJobDriver |->
         [t |-> "object", entryPoint |-> entryPoint,
          entryPointArguments |-> entryPointArguments, sparkSubmitParameters |-> undefined]]

RenderJobDriverInputs ==
    {[sparkSubmitJobDriver |-> undefined],
     ValidJobDriver,
     SparkSubmitJobDriver(FromText(Sized(1)), FromObject(Array(<<Run(Sized(3), 2)>>))),
     SparkSubmitJobDriver(FromJsonPathAt("$.entryPoint"), FromJsonPathAt("$.entryPointArguments")),
     SparkSubmitJobDriver(FromText(JsonPathSized(MaxEntryPointLength + 1)),
            FromText(JsonPathSized(MaxEntryPointArguments + 1))),
     SparkSubmitJobDriver(FromText(Sized(MaxEntryPointLength + 1)),
            FromText(JsonPathSized(MaxEntryPointArguments + 1))),
     SparkSubmitJobDriver(FromText(JsonPathSized(MaxEntryPointLength + 1)),
            FromObject(Array(<<Run(Sized(3), MaxEntryPointArguments + 1)>>)))}

InitRender ==
    InitWith(StartJobRunProps(RenderApplicationConfigInputs, RenderJobDriverInputs,
                              RenderMonitoringInputs, TagInputs, NameInputs)
                 \cup CreateVirtualClusterProps \cup DeleteVirtualClusterProps)

SpecRender == InitRender /\ [][Next]_vars

(***************************************************************************)
(* Properties                                                              *)
(***************************************************************************)
\* the constructor has returned or thrown
Done == pc \in {"failed", "constructed"}

IsStartJobRun == props.taskType = "StartJobRun"

\* the pattern the task is constructed with: the one given, else the default
GivenPattern ==
    IF ~IsUndefined(props.integrationPattern) THEN props.integrationPattern.text
    ELSE IF props.taskType = "CreateVirtualCluster" THEN "REQUEST_RESPONSE"
    ELSE "RUN_JOB"

SupportedBy(taskType) ==
    IF taskType = "CreateVirtualCluster"
    THEN {"REQUEST_RESPONSE"}
    ELSE {"REQUEST_RESPONSE", "RUN_JOB"}

SupportedListOf(taskType) ==
    IF taskType = "CreateVirtualCluster"
    THEN "REQUEST_RESPONSE"
    ELSE "REQUEST_RESPONSE,RUN_JOB"

ViolatedFieldRules(p) ==
    {kind \in {"applicationConfig", "entryPoint", "entryPointArgumentsType",
               "entryPointArgumentsLength", "sparkSubmitParameters", "executionRole"} :
        CASE kind = "applicationConfig"         -> ValidateApplicationConfig(p) # NoError
          [] kind = "entryPoint"                -> ValidateEntryPoint(p) # NoError
          [] kind = "entryPointArgumentsType"   -> ValidateEntryPointArgumentsType(p) # NoError
          [] kind = "entryPointArgumentsLength" -> ValidateEntryPointArgumentsLength(p) # NoError
          [] kind = "sparkSubmitParameters"     -> ValidateSparkSubmitParameters(p) # NoError
          [] kind = "executionRole"             -> ValidateExecutionRole(p) # NoError}

\* C2: a StartJobRun task given an unsupported pattern and props that also
\* violate field rules throws the unsupported-pattern error, and no field rule
\* has run before it: the first step of the constructor is the gate.
C2_GateBeforeFields ==
    (IsStartJobRun /\ GivenPattern \notin SupportedBy("StartJobRun")
         /\ ViolatedFieldRules(props) # {})
        => \/ pc = "start"
           \/ pc = "failed" /\ error.kind = "UnsupportedPattern"

\* unsupported pattern, an empty entry point and no execution role for a JSON path cluster
C2_Witness ==
    /\ pc = "failed"
    /\ IsStartJobRun
    /\ props.integrationPattern = WAIT_FOR_TASK_TOKEN
    /\ {"entryPoint", "executionRole"} \subseteq ViolatedFieldRules(props)
    /\ error.kind = "UnsupportedPattern"

\* the kinds of the errors the validation blocks of the constructor throw
ValidationKinds ==
    {"UnsupportedPattern", "AppConfigLength", "AppConfigPropertiesLength",
     "EntryPointLength", "EntryPointArgumentsType", "EntryPointArgumentsLength",
     "SparkSubmitParametersLength", "MissingExecutionRole"}

ClusterIdIsJsonPath == props.virtualClusterId.value.path # ""

\* C3: a StartJobRun task with no execution role and a literal cluster id, whose
\* props pass every validation block, is constructed: the generated role
\* Job-Execution-Role is this.role and this.grantPrincipal, no operation has
\* read this.role before it was assigned, and the role's ARN is the execution
\* role ARN of the task.
C3_GeneratedRole ==
    (Done /\ IsStartJobRun /\ IsUndefined(props.executionRole) /\ ~ClusterIdIsJsonPath
         /\ error.kind \notin ValidationKinds)
        => /\ pc = "constructed"
           /\ error = NoError
           /\ role = Construct("Role", "Job-Execution-Role")
           /\ grantPrincipal = role
           /\ taskPolicies[1].conditions[1].value = "{Job-Execution-Role.Arn}"

\* the kinds of the errors of the field rules that run before the execution role rule
FieldKinds ==
    {"AppConfigLength", "AppConfigPropertiesLength", "EntryPointLength",
     "EntryPointArgumentsType", "EntryPointArgumentsLength", "SparkSubmitParametersLength"}

\* the props of a StartJobRun task with a supported pattern, no execution role
\* and a JSON path as cluster id
NoRoleForJsonPathCluster ==
    /\ IsStartJobRun
    /\ GivenPattern \in SupportedBy("StartJobRun")
    /\ IsUndefined(props.executionRole)
    /\ ClusterIdIsJsonPath

\* C4 as stated: such a construction always fails with the missing-execution-role
\* error, whatever the other fields are.
C4_AlwaysMissingRoleError ==
    (Done /\ NoRoleForJsonPathCluster)
        => pc = "failed" /\ error.kind = "MissingExecutionRole"

\* C4: such a construction always fails; the error is the missing-execution-role
\* error exactly when the application configuration, entry point, entry point
\* arguments and spark submit parameters pass their rules, and otherwise the
\* error of one of those rules, which run first.
C4_MissingRoleAfterFields ==
    (Done /\ NoRoleForJsonPathCluster)
        => /\ pc = "failed"
           /\ error.kind \in FieldKinds \cup {"MissingExecutionRole"}
           /\ error.kind = "MissingExecutionRole" <=>
                  (ViolatedFieldRules(props) \subseteq {"executionRole"})

\* the missing-execution-role error for props with an entry point, arguments and parameters
C4_Witness ==
    /\ Done
    /\ NoRoleForJsonPathCluster
    /\ error.kind = "MissingExecutionRole"
    /\ ~IsUndefined(props.jobDriver.sparkSubmitJobDriver)
    /\ ~IsUndefined(props.jobDriver.sparkSubmitJobDriver.entryPointArguments)
    /\ ~IsUndefined(props.jobDriver.sparkSubmitJobDriver.sparkSubmitParameters)
    /\ ~IsUndefined(props.applicationConfig)

WildcardClusters == "arn:{Partition}:emr-containers:{Region}:{AccountId}:/virtualclusters/*"

LiteralCluster ==
    "arn:{Partition}:emr-containers:{Region}:{AccountId}:/virtualclusters/"
        \o props.virtualClusterId.value.text

Constructed(taskType) == pc = "constructed" /\ props.taskType = taskType

\* C5 as stated: REQUEST_RESPONSE derives the StartJobRun statement alone; RUN_JOB
\* derives it plus two statements, one for DescribeJobRun and one for CancelJobRun,
\* each on the resource of the StartJobRun statement.
C5_TwoMoreStatements ==
    Constructed("StartJobRun") =>
        /\ taskPolicies[1].actions = <<"emr-containers:StartJobRun">>
        /\ GivenPattern = "REQUEST_RESPONSE" => Len(taskPolicies) = 1
        /\ GivenPattern = "RUN_JOB" =>
               /\ Len(taskPolicies) = 3
               /\ taskPolicies[2].actions = <<"emr-containers:DescribeJobRun">>
               /\ taskPolicies[3].actions = <<"emr-containers:CancelJobRun">>
               /\ \A i \in 2..3 : taskPolicies[i].resources = taskPolicies[1].resources

\* C5: REQUEST_RESPONSE derives the StartJobRun statement alone; RUN_JOB derives it
\* plus one statement that carries both DescribeJobRun and CancelJobRun, on the
\* wildcard virtual-cluster pattern when the cluster id is a JSON path (the
\* resource of the StartJobRun statement) and on the job runs of the cluster,
\* <cluster>/jobruns/*, when it is a literal.
C5_OneMoreStatement ==
    Constructed("StartJobRun") =>
        /\ taskPolicies[1].actions = <<"emr-containers:StartJobRun">>
        /\ GivenPattern = "REQUEST_RESPONSE" => Len(taskPolicies) = 1
        /\ GivenPattern = "RUN_JOB" =>
               /\ Len(taskPolicies) = 2
               /\ taskPolicies[2].actions =
                      <<"emr-containers:DescribeJobRun", "emr-containers:CancelJobRun">>
               /\ taskPolicies[2].resources =
                      IF ClusterIdIsJsonPath
                      THEN taskPolicies[1].resources
                      ELSE <<LiteralCluster \o "/jobruns/*">>

\* a RUN_JOB task for a literal cluster with both statements derived
C5_Witness ==
    /\ Constructed("StartJobRun")
    /\ GivenPattern = "RUN_JOB"
    /\ ~ClusterIdIsJsonPath
    /\ Len(taskPolicies) = 2

\* C6: with a JSON path as cluster id every derived statement has the wildcard
\* virtual-cluster pattern as its resource; with a literal cluster id the
\* StartJobRun statement names that cluster and no statement has the bare
\* wildcard pattern as a resource.
C6_ResourceScope ==
    Constructed("StartJobRun") =>
        IF ClusterIdIsJsonPath
        THEN \A i \in 1..Len(taskPolicies) : taskPolicies[i].resources = <<WildcardClusters>>
        ELSE /\ taskPolicies[1].resources = <<LiteralCluster>>
             /\ \A i \in 1..Len(taskPolicies) :
                    \A j \in 1..Len(taskPolicies[i].resources) :
                        taskPolicies[i].resources[j] # WildcardClusters

\* a RUN_JOB task for a JSON path cluster: two statements, both on the wildcard
C6_Witness ==
    /\ Constructed("StartJobRun")
    /\ ClusterIdIsJsonPath
    /\ Len(taskPolicies) = 2
    /\ taskPolicies[2].resources = <<WildcardClusters>>

\* the spark submit job driver of the props, when the task has one
HasDriver == IsStartJobRun /\ ~IsUndefined(props.jobDriver.sparkSubmitJobDriver)

Driver == props.jobDriver.sparkSubmitJobDriver

IsLiteralString(v) == v.t = "string" /\ v.path = ""

\* the props pass the gate and the given field rules
Passes(rules) ==
    /\ GivenPattern \in SupportedBy(props.taskType)
    /\ ViolatedFieldRules(props) \cap rules = {}

\* JSON.stringify(value).length of an array of strings: the brackets, every
\* item in its quotes, and the commas between the items
RECURSIVE QuotedSize(_)
QuotedSize(runs) ==
    IF runs = <<>> THEN 0
    ELSE Head(runs).count * (Head(runs).item.len + 2) + QuotedSize(Tail(runs))

SerializedSize(array) ==
    2 + QuotedSize(array.runs)
      + (IF SumCounts(array.runs) > 0 THEN SumCounts(array.runs) - 1 ELSE 0)

\* the number of elements of an array
RECURSIVE ElementCount(_)
ElementCount(runs) ==
    IF runs = <<>> THEN 0 ELSE Head(runs).count + ElementCount(Tail(runs))

IsStringArray(v) ==
    v.t = "array" /\ \A i \in 1..Len(v.runs) : v.runs[i].item.t = "string"

\* literal entry point arguments in props that pass the gate and the rules
\* that run before the entry point arguments rules
LiteralArguments ==
    /\ Done
    /\ HasDriver
    /\ ~IsUndefined(Driver.entryPointArguments)
    /\ ~(Driver.entryPointArguments.value.t = "string"
            /\ Driver.entryPointArguments.value.path # "")
    /\ Passes({"applicationConfig", "entryPoint"})

\* the outcome of the entry point arguments rules for arguments of the given
\* size: a type error unless the value is an array of strings, a length error
\* unless the size is in [1, 10280], neither when both hold
ArgumentsOutcome(value, size) ==
    IF ~IsStringArray(value)
    THEN pc = "failed" /\ error.kind = "EntryPointArgumentsType"
    ELSE IF size \notin 1..10280
    THEN pc = "failed" /\ error.kind = "EntryPointArgumentsLength"
    ELSE error.kind \notin {"EntryPointArgumentsType", "EntryPointArgumentsLength"}

\* C7 as stated: the length of literal entry point arguments is their serialized size.
C7_SerializedSize ==
    LiteralArguments =>
        ArgumentsOutcome(Driver.entryPointArguments.value,
                         IF IsStringArray(Driver.entryPointArguments.value)
                         THEN SerializedSize(Driver.entryPointArguments.value)
                         ELSE 0)

\* C7: literal entry point arguments, in props whose pattern, application
\* configuration and entry point pass, fail with the type error unless the value
\* is an array whose every element is a string, fail with the length error
\* unless the number of elements of the array is in [1, 10280], and pass both
\* rules otherwise.
C7_ElementCount ==
    LiteralArguments =>
        ArgumentsOutcome(Driver.entryPointArguments.value,
                         IF IsStringArray(Driver.entryPointArguments.value)
                         THEN ElementCount(Driver.entryPointArguments.value.runs)
                         ELSE 0)

\* one string of 10281 characters passes both rules: its element count is 1
C7_Witness ==
    /\ LiteralArguments
    /\ IsStringArray(Driver.entryPointArguments.value)
    /\ ElementCount(Driver.entryPointArguments.value.runs) = 1
    /\ SerializedSize(Driver.entryPointArguments.value) > 10280
    /\ error.kind \notin {"EntryPointArgumentsType", "EntryPointArgumentsLength"}

\* C8: spark submit parameters that are present, the empty string included, in
\* props that pass the gate and the rules before the spark submit parameters
\* rule, fail with the length error unless their length is in [1, 102400].
C8_ParametersLength ==
    (Done /\ HasDriver /\ Driver.sparkSubmitParameters.t = "string"
         /\ Passes({"applicationConfig", "entryPoint", "entryPointArgumentsType",
                    "entryPointArgumentsLength"}))
        => IF Driver.sparkSubmitParameters.len \in 1..102400
           THEN error.kind # "SparkSubmitParametersLength"
           ELSE pc = "failed" /\ error.kind = "SparkSubmitParametersLength"

\* C9: a literal entry point string of length 0 or more than 256 makes the
\* construction fail: with the entry point length error when the pattern and the
\* application configuration pass, and with the error of one of those two
\* otherwise; a length in [1, 256] never gives the entry point length error.
C9_EntryPointLength ==
    (Done /\ HasDriver /\ IsLiteralString(Driver.entryPoint.value)) =>
        IF Driver.entryPoint.value.len \in 1..256
        THEN error.kind # "EntryPointLength"
        ELSE /\ pc = "failed"
             /\ IF Passes({"applicationConfig"})
                THEN error.kind = "EntryPointLength"
                ELSE error.kind \in {"UnsupportedPattern", "AppConfigLength",
                                     "AppConfigPropertiesLength"}

\* the empty entry point is rejected by the entry point rule
C9_Witness ==
    /\ Done
    /\ HasDriver
    /\ IsLiteralString(Driver.entryPoint.value)
    /\ Driver.entryPoint.value.len = 0
    /\ error.kind = "EntryPointLength"

\* every level of the tree holds at most 100 configurations and every node at
\* most 100 properties
RECURSIVE WithinBounds(_)
WithinBounds(config) ==
    \/ config.t = "undefined"
    \/ /\ ElementCount(config.runs) <= 100
       /\ \A i \in 1..Len(config.runs) :
              /\ \/ config.runs[i].item.properties.t = "undefined"
                 \/ Cardinality(config.runs[i].item.properties.keys) <= 100
              /\ WithinBounds(config.runs[i].item.nestedConfig)

\* the depth of the deepest level of the tree that holds more than 100
\* configurations or a node with more than 100 properties; 0 if there is none
RECURSIVE ViolationDepth(_)
ViolationDepth(config) ==
    IF WithinBounds(config) THEN 0
    ELSE IF \/ ElementCount(config.runs) > 100
            \/ \E i \in 1..Len(config.runs) :
                   /\ config.runs[i].item.properties.t # "undefined"
                   /\ Cardinality(config.runs[i].item.properties.keys) > 100
    THEN 1
    ELSE 1 + ViolationDepth(
                 (CHOOSE r \in {config.runs[i] : i \in 1..Len(config.runs)} :
                      ~WithinBounds(r.item.nestedConfig)).item.nestedConfig)

\* C10: once the application configuration rule of a StartJobRun task with a
\* supported pattern has run, the construction has failed with an application
\* configuration error if some level of the tree, at any depth, holds more than
\* 100 configurations or some node more than 100 properties, and has not got
\* such an error otherwise: every accepted tree is within the bounds at every depth.
C10_ConfigurationBounds ==
    (IsStartJobRun /\ pc \notin {"start", "applicationConfig"}
         /\ GivenPattern \in SupportedBy("StartJobRun"))
        => IF WithinBounds(props.applicationConfig)
           THEN error.kind \notin {"AppConfigLength", "AppConfigPropertiesLength"}
           ELSE /\ pc = "failed"
                /\ error.kind \in {"AppConfigLength", "AppConfigPropertiesLength"}

\* a tree rejected for a violation two levels below a top level that is within the bounds
C10_Witness ==
    /\ IsStartJobRun
    /\ pc = "failed"
    /\ error.kind = "AppConfigLength"
    /\ ViolationDepth(props.applicationConfig) >= 3

(***************************************************************************)
(* Properties of the rendered task                                         *)
(***************************************************************************)
\* _renderTask() has returned or thrown
RenderAttempted == pc \in {"rendered", "renderFailed"}

\* the value under a key of an object literal; undefined when the key is absent
RECURSIVE Lookup(_, _)
Lookup(fields, key) ==
    IF fields = <<>> THEN undefined
    ELSE IF Head(fields).key = key THEN Head(fields).value
    ELSE Lookup(Tail(fields), key)

Get(object, key) ==
    IF object.t = "record" THEN Lookup(object.fields, key) ELSE undefined

HasKey(object, key) ==
    object.t = "record" /\ \E i \in 1..Len(object.fields) : object.fields[i].key = key

Parameters == Get(rendered, "Parameters")

ConfigurationOverrides == Get(Parameters, "ConfigurationOverrides")

\* the fields of a sequence whose value is not undefined
DefinedFields(fields) == SelectSeq(fields, LAMBDA f : ~IsUndefined(f.value))

\* a list of configurations as the wire document shows it: every level in the
\* order of the list, every node with its classification, its properties when
\* it has some and its nested configurations when it has some
RECURSIVE WireConfigurations(_)
WireConfigurations(list) ==
    IF IsUndefined(list) THEN undefined
    ELSE Array([i \in 1..Len(list.runs) |->
                   Run(ObjectLiteral(DefinedFields(
                           <<Field("Classification", Text(list.runs[i].item.classification)),
                             Field("Properties", list.runs[i].item.properties),
                             Field("Configurations",
                                   WireConfigurations(list.runs[i].item.nestedConfig))>>)),
                       list.runs[i].count)])

\* whether some node of a list of configurations has a nestedConfig
HasNestedConfig(list) ==
    ~IsUndefined(list) /\ \E i \in 1..Len(list.runs) : ~IsUndefined(list.runs[i].item.nestedConfig)

\* C11: rendering raises no error: for every StartJobRun task that construction
\* accepts, application configurations with nested configurations included,
\* _renderTask() returns without throwing, and the ApplicationConfiguration it
\* renders is the whole configuration tree, every level in its original order.
C11_RenderNeverThrows ==
    (IsStartJobRun /\ RenderAttempted) =>
        /\ renderError = NoError
        /\ Get(ConfigurationOverrides, "ApplicationConfiguration")
               = WireConfigurations(props.applicationConfig)

\* holds: a task whose configurations have no nestedConfig renders them in order
C11_FlatConfigurationsRendered ==
    (IsStartJobRun /\ RenderAttempted /\ ~HasNestedConfig(props.applicationConfig)) =>
        /\ renderError = NoError
        /\ Get(ConfigurationOverrides, "ApplicationConfiguration")
               = WireConfigurations(props.applicationConfig)

\* a construct with this id was created under the task
Created(id) == \E i \in 1..Len(children) : children[i] = id

MonitoringConfiguration == Get(ConfigurationOverrides, "MonitoringConfiguration")

CloudWatchMonitoringConfiguration ==
    Get(MonitoringConfiguration, "CloudWatchMonitoringConfiguration")

S3MonitoringConfiguration == Get(MonitoringConfiguration, "S3MonitoringConfiguration")

LoggingIsTrue == MonitoringField(props, "logging") = Bool(TRUE)

\* C12: a supplied monitoring.logGroup / monitoring.logBucket is the one the
\* rendered monitoring configuration names, and no new one is created; a log
\* group / bucket is generated only when none is supplied and logging is true;
\* with neither supplied and logging not true, no CloudWatch / S3 monitoring
\* configuration is rendered.
C12_SuppliedMonitoringUsed ==
    (IsStartJobRun /\ pc = "rendered") =>
        LET group == MonitoringField(props, "logGroup")
            bucket == MonitoringField(props, "logBucket")
        IN  /\ ~IsUndefined(group) =>
                   /\ Get(CloudWatchMonitoringConfiguration, "LogGroupName") = LogGroupName(group)
                   /\ ~Created("Monitoring Log Group")
            /\ ~IsUndefined(bucket) =>
                   /\ Get(S3MonitoringConfiguration, "LogUri") = s3UrlForObject(bucket)
                   /\ ~Created("Monitoring Bucket")
            /\ Created("Monitoring Log Group") <=> (IsUndefined(group) /\ LoggingIsTrue)
            /\ Created("Monitoring Bucket") <=> (IsUndefined(bucket) /\ LoggingIsTrue)
            /\ (IsUndefined(group) /\ ~LoggingIsTrue) =>
                   ~HasKey(MonitoringConfiguration, "CloudWatchMonitoringConfiguration")
            /\ (IsUndefined(bucket) /\ ~LoggingIsTrue) =>
                   ~HasKey(MonitoringConfiguration, "S3MonitoringConfiguration")

\* holds: what the claim says of the tasks that are given no log group and no bucket
C12_GeneratedMonitoring ==
    (IsStartJobRun /\ pc = "rendered"
         /\ IsUndefined(MonitoringField(props, "logGroup"))
         /\ IsUndefined(MonitoringField(props, "logBucket"))) =>
        /\ Created("Monitoring Log Group") <=> LoggingIsTrue
        /\ Created("Monitoring Bucket") <=> LoggingIsTrue
        /\ HasKey(MonitoringConfiguration, "CloudWatchMonitoringConfiguration") <=> LoggingIsTrue
        /\ HasKey(MonitoringConfiguration, "S3MonitoringConfiguration") <=> LoggingIsTrue

\* the API a task type calls
Api ==
    CASE props.taskType = "StartJobRun"          -> "startJobRun"
      [] props.taskType = "CreateVirtualCluster" -> "createVirtualCluster"
      [] props.taskType = "DeleteVirtualCluster" -> "deleteVirtualCluster"

\* the key the cluster id is rendered under
ClusterIdKey == IF IsStartJobRun THEN "VirtualClusterId" ELSE "Id"

HasClusterId == props.taskType \in {"StartJobRun", "DeleteVirtualCluster"}

\* C13: the rendered Resource ends in .sync exactly when the integration pattern
\* is RUN_JOB and has no suffix for REQUEST_RESPONSE; the cluster id is rendered
\* under the plain key (Id, VirtualClusterId) when it is a literal and under the
\* key with the suffix .$ (Id.$, VirtualClusterId.$) when it is a JSON path,
\* never under both.
C13_ResourceAndClusterIdKey ==
    pc = "rendered" =>
        /\ Get(rendered, "Resource") =
               Text("arn:{Partition}:states:::emr-containers:" \o Api
                        \o (IF GivenPattern = "RUN_JOB" THEN ".sync" ELSE ""))
        /\ HasClusterId =>
               IF ClusterIdIsJsonPath
               THEN /\ Get(Parameters, ClusterIdKey \o ".$") = Text(props.virtualClusterId.value.path)
                    /\ ~HasKey(Parameters, ClusterIdKey)
               ELSE /\ Get(Parameters, ClusterIdKey) = props.virtualClusterId.value
                    /\ ~HasKey(Parameters, ClusterIdKey \o ".$")

C13_Witness ==
    /\ pc = "rendered"
    /\ props.taskType = "DeleteVirtualCluster"
    /\ ClusterIdIsJsonPath
    /\ GivenPattern = "RUN_JOB"
    /\ HasKey(Parameters, "Id.$")
    /\ Get(rendered, "Resource").text = "arn:{Partition}:states:::emr-containers:deleteVirtualCluster.sync"

\* the {Key, Value} pairs of a tag mapping, in the order of its keys
TagSequence(tags) ==
    Array([i \in 1..Len(tags.fields) |->
              Run(ObjectLiteral(<<Field("Key", Text(tags.fields[i].key)),
                                  Field("Value", tags.fields[i].value)>>), 1)])

\* the Tags field of the rendered parameters, at the top or where the
\* configuration overrides are
RenderedTags ==
    IF HasKey(Parameters, "Tags") THEN Get(Parameters, "Tags")
    ELSE Get(ConfigurationOverrides, "Tags")

\* C14: for a StartJobRun task given a tag mapping, the rendered Tags field is
\* itself the sequence of {Key, Value} pairs in the insertion order of the
\* mapping, not an object that wraps the sequence; given no tag mapping, no Tags
\* field is rendered.
C14_TagsIsSequence ==
    (IsStartJobRun /\ pc = "rendered") =>
        IF IsUndefined(props.tags)
        THEN ~HasKey(Parameters, "Tags") /\ ~HasKey(ConfigurationOverrides, "Tags")
        ELSE RenderedTags = TagSequence(props.tags)

\* holds: the sequence is rendered one level down, under Tags.Tags
C14_TagsWrapsSequence ==
    (IsStartJobRun /\ pc = "rendered") =>
        IF IsUndefined(props.tags)
        THEN ~HasKey(Parameters, "Tags") /\ ~HasKey(ConfigurationOverrides, "Tags")
        ELSE Get(Get(ConfigurationOverrides, "Tags"), "Tags") = TagSequence(props.tags)

EntryPointIsJsonPath == HasDriver /\ isEncodedJsonPath(Driver.entryPoint.value)

EntryPointArgumentsIsJsonPath ==
    /\ HasDriver
    /\ ~IsUndefined(Driver.entryPointArguments)
    /\ isEncodedJsonPath(Driver.entryPointArguments.value)

\* C15: an entry point given as an encoded JSON path never raises the entry
\* point length error, and entry point arguments given as an encoded JSON path
\* never raise the entry point arguments type or length error, whatever the
\* length of the encoded string.
C15_JsonPathNotChecked ==
    /\ EntryPointIsJsonPath => error.kind # "EntryPointLength"
    /\ EntryPointArgumentsIsJsonPath =>
           error.kind \notin {"EntryPointArgumentsType", "EntryPointArgumentsLength"}

C15_Witness ==
    /\ pc = "constructed"
    /\ EntryPointIsJsonPath
    /\ EntryPointArgumentsIsJsonPath
    /\ Driver.entryPoint.value.len > MaxEntryPointLength
    /\ Driver.entryPointArguments.value.len > MaxEntryPointArguments

ServiceLinkedRole ==
    "arn:{Partition}:iam::{AccountId}:role/aws-service-role/emr-containers.amazonaws.com/AWSServiceRoleForAmazonEMRContainers"

\* C16: the task policies of every constructed CreateVirtualCluster task are, in
\* order, the statement for emr-containers:CreateVirtualCluster and exactly one
\* statement for iam:CreateServiceLinkedRole, whose only resource is the
\* service-linked role of EMR containers, not a wildcard, and whose only
\* condition is a string match of iam:AWSServiceName on the emr-containers
\* service principal.
C16_ServiceLinkedRoleStatement ==
    (props.taskType = "CreateVirtualCluster" /\ pc \in {"constructed", "rendered"}) =>
        /\ Len(taskPolicies) = 2
        /\ taskPolicies[1].actions = <<"emr-containers:CreateVirtualCluster">>
        /\ taskPolicies[2].actions = <<"iam:CreateServiceLinkedRole">>
        /\ taskPolicies[2].resources = <<ServiceLinkedRole>>
        /\ Len(taskPolicies[2].conditions) = 1
        /\ taskPolicies[2].conditions[1].operator \in {"StringLike", "StringEquals"}
        /\ taskPolicies[2].conditions[1].key = "iam:AWSServiceName"
        /\ taskPolicies[2].conditions[1].value = "emr-containers.amazonaws.com"

C16_Witness ==
    /\ Constructed("CreateVirtualCluster")
    /\ Len(taskPolicies) = 2
    /\ taskPolicies[2].resources = <<ServiceLinkedRole>>

\* how many times updateRoleTrustPolicy has created its function under the task
TrustPolicyUpdates ==
    Cardinality({i \in 1..Len(children) : children[i] = "Call Update-Role-Trust-Policy"})

\* how many times the monitoring logs statement was added to the task's role
LogsStatementsOnRole ==
    Cardinality({i \in 1..Len(principalPolicy) :
                     /\ principalPolicy[i].principal = role.id
                     /\ principalPolicy[i].statement = LogsStatement})

\* C17: at every point of the construction of a StartJobRun task,
\* updateRoleTrustPolicy has provisioned its function at most once, and not at
\* all for a task given an execution role; the role of a constructed task has
\* been given the monitoring logs statement exactly once.
C17_ProvisionedOnce ==
    IsStartJobRun =>
        /\ TrustPolicyUpdates <= 1
        /\ ~IsUndefined(props.executionRole) => TrustPolicyUpdates = 0
        /\ pc \in {"constructed", "rendered", "renderFailed"} => LogsStatementsOnRole = 1

C17_Witness ==
    /\ Constructed("StartJobRun")
    /\ ~IsUndefined(props.executionRole)
    /\ role = props.executionRole
    /\ ~IsUndefined(logBucket)
    /\ TrustPolicyUpdates = 0
    /\ LogsStatementsOnRole = 1
    /\ Len(principalPolicy) = 2

\* the numbers of properties of the nodes of a configuration tree, at any depth
RECURSIVE PropertyCounts(_)
PropertyCounts(list) ==
    IF IsUndefined(list) THEN {}
    ELSE UNION {(IF IsUndefined(list.runs[i].item.properties) THEN {}
                 ELSE {KeyCount(list.runs[i].item.properties)})
                    \cup PropertyCounts(list.runs[i].item.nestedConfig) :
                i \in 1..Len(list.runs)}

\* the numbers of siblings of the levels of a configuration tree, at any depth
RECURSIVE LevelSizes(_)
LevelSizes(list) ==
    IF IsUndefined(list) THEN {}
    ELSE {SumCounts(list.runs)}
             \cup UNION {LevelSizes(list.runs[i].item.nestedConfig) : i \in 1..Len(list.runs)}

\* the error says which size it received
Received(prefix, sizes, suffix) ==
    \E n \in sizes : error.message = prefix \o " Received " \o Digits(n) \o suffix

\* C18: every size error of the StartJobRun constructor carries the permitted
\* bound and the actual size of the offending value: the number n > 100 of
\* properties of a configuration node, the number n > 100 of siblings of a
\* configuration level, the length of the entry point, of the entry point
\* arguments and of the spark submit parameters.
C18_MessageCarriesSize ==
    (IsStartJobRun /\ pc = "failed") =>
        /\ error.kind = "AppConfigPropertiesLength" =>
               Received("Application configuration properties must have 100 or fewer entries.",
                        {n \in PropertyCounts(props.applicationConfig) : n > MaxAppConfigProperties},
                        "")
        /\ error.kind = "AppConfigLength" =>
               Received("Application configuration array must have 100 or fewer entries.",
                        {n \in LevelSizes(props.applicationConfig) : n > MaxAppConfigEntries}, "")
        /\ error.kind = "EntryPointLength" =>
               Received("Entry point must be between 1 and 256 characters in length.",
                        {Driver.entryPoint.value.len}, ".")
        /\ error.kind = "EntryPointArgumentsLength" =>
               Received("Entry point arguments must be an string array between 1 and 10280 in length.",
                        {SumCounts(Driver.entryPointArguments.value.runs)}, ".")
        /\ error.kind = "SparkSubmitParametersLength" =>
               Received("Spark submit parameters must be between 1 and 102400 characters in length.",
                        {Driver.sparkSubmitParameters.len}, ".")

\* holds: the size errors other than the one of the properties carry the size
C18_OtherMessagesCarrySize ==
    (IsStartJobRun /\ pc = "failed" /\ error.kind # "AppConfigPropertiesLength") =>
        C18_MessageCarriesSize

====
